---- MODULE Spec2Model ----
(***************************************************************************)
(* Interview-practice backend (ICAIapp): the session/turn store, the       *)
(* access check and the request handlers of views.py, with the outbound    *)
(* interview-engine call as a nondeterministic collaborator.               *)
(*                                                                         *)
(* Every HTTP request is served by a worker (Procs).  A handler that calls *)
(* the engine is split at the call: the part before it, and the part that  *)
(* runs once the engine has answered.  Database writes made inside one     *)
(* transaction.atomic() block become visible in one step, at commit.       *)
(***************************************************************************)
EXTENDS Integers, Sequences, FiniteSets, TLC

\* ------------------------------------------------------------------ bounds
\* Number of HTTP requests the workers accept in one behaviour.
MaxRequests == 3
\* Largest number of questions in one engine generate response.
MaxBatch == 2
\* Number of user accounts in one behaviour.
MaxUsers == 3
\* Answers given to the offline engine are up to MaxTwenties * 20 characters long.
MaxTwenties == 11

\* ------------------------------------------------------- program constants
\* serializers.py: IntegerField(min_value=1, max_value=50) on count.
CountMin == 1
CountMax == 50
\* views.py: FASTAPI_DEFAULT_QUESTION_COUNT fallback, FASTAPI_MAX_GENERATE_COUNT fallback.
DefaultQuestionCount == 5
MaxGenerateCount == 50
\* serializers.py: InterviewGenerateSerializer count default.
DefaultGenerateCount == 3
\* interview_engine.py (offline engine): default count, number of question
\* templates, technologies used, and the score's divisor and range.
MockDefaultCount == 5
MockTemplates == 10
MockTechs == 3
ScoreDivisor == 20
ScoreMin == 1
ScoreMax == 10
FeedbackQuote == 50

\* --------------------------------------------------------------- universes
Procs == {"p1", "p2"}
Users == {"u1", "u2"}
Anon == "anon"
Callers == Users \cup {Anon}
SessionIds == {1}
NoUser == "none"

\* Optional values (Python None / SQL NULL) are sequences of length 0 or 1.
None == <<>>
Some(x) == <<x>>

\* Texts that are stripped or lowercased by the code are sequences of characters.
Chars == {" ", "a", "A", "b", "x"}

Min(a, b) == IF a < b THEN a ELSE b
SetMax(S) == CHOOSE x \in S : \A y \in S : y <= x

\* str.strip(): drop leading and trailing whitespace.
RECURSIVE LStrip(_)
LStrip(s) == IF s = <<>> THEN s
             ELSE IF Head(s) = " " THEN LStrip(Tail(s)) ELSE s
RECURSIVE RStrip(_)
RStrip(s) == IF s = <<>> THEN s
             ELSE IF s[Len(s)] = " " THEN RStrip(SubSeq(s, 1, Len(s) - 1)) ELSE s
Strip(s) == RStrip(LStrip(s))

\* str.lower()
LowerChar(c) == IF c = "A" THEN "a" ELSE c
Lower(s) == [i \in 1..Len(s) |-> LowerChar(s[i])]

\* Python truthiness of "q and q.strip()"
Usable(q) == q # <<>> /\ Strip(q) # <<>>

\* Variant: the cleaned list is cut after its first question.
CleanQuestions_CutToOne(qs) ==
    LET kept == SelectSeq(qs, Usable)
    IN  IF kept = <<>> THEN <<>> ELSE <<Strip(kept[1])>>

\* [q.strip() for q in questions if q and q.strip()]
CleanQuestions(qs) ==
    LET kept == SelectSeq(qs, Usable)
    IN  [i \in 1..Len(kept) |-> Strip(kept[i])]

\* ------------------------------------------------------------------ inputs
\* Lists of length 0..n of different elements of S.
SeqsUpTo(S, n) ==
    UNION {{q \in [1..k -> S] : \A i, j \in 1..k : q[i] = q[j] => i = j} : k \in 0..n}

\* Question texts the engine may return (blank, plain, case/space variant, other).
\* A response that repeats a question does so in two spellings, "a" and "A ".
QuestionPool == {<<" ">>, <<"a">>, <<"A", " ">>, <<"b">>}
EngineSessionIds == {"fs"}
EngineErrorCodes == {400, 502}

\* HTTP status codes the engine answers with: success, bad request, another
\* client error, a server error.
HttpStatuses == {200, 400, 404, 500}

\* What httpx.post can do for a request whose parsed answers are `bodies`: raise
\* httpx.RequestError, answer with a status that is no success, answer 200 with
\* a body that is no JSON, or answer 200 with a JSON body.  blank stands for
\* the body where the client never parses one.
Replies(bodies, blank) ==
    [kind : {"network"}, status : {0}, json : {FALSE}, body : {blank}]
    \cup
    [kind : {"response"}, status : HttpStatuses \ {200}, json : {TRUE}, body : {blank}]
    \cup
    [kind : {"response"}, status : {200}, json : {FALSE}, body : {blank}]
    \cup
    [kind : {"response"}, status : {200}, json : {TRUE}, body : bodies]

\* raise InterviewEngineError(detail, status_code)
Raise(reply, code, detail) ==
    [kind |-> "error", code |-> code, detail |-> detail] @@ reply.body

\* Variant: the client posts again after its first attempt.
Posted_WithRetry(calls) == calls + 2

\* The count of outbound POSTs after one call of the client: _post makes one
\* httpx.post and has no loop (interview_engine.py 28-31).
Posted(calls) == calls + 1

\* Variant: every client error of the engine is passed on as 400.
Post_ClientErrorsAs400(reply) ==
    IF reply.kind = "network" THEN Raise(reply, 502, "network_error")
    ELSE IF reply.status < 200 \/ reply.status >= 300
    THEN IF reply.status >= 400 /\ reply.status < 500
         THEN Raise(reply, 400, "bad_request")
         ELSE Raise(reply, 502, "engine_5xx")
    ELSE IF ~reply.json THEN Raise(reply, 502, "invalid_json")
    ELSE [kind |-> "ok", code |-> 200, detail |-> "ok"] @@ reply.body

\* services/interview_engine.py _post: the typed error it raises, or the
\* parsed body it returns.
Post(reply) ==
    IF reply.kind = "network" THEN Raise(reply, 502, "network_error")
    ELSE IF reply.status < 200 \/ reply.status >= 300
    THEN IF reply.status = 400 THEN Raise(reply, 400, "bad_request")
         ELSE IF reply.status >= 500 THEN Raise(reply, 502, "engine_5xx")
         ELSE Raise(reply, 502, "engine_other")
    ELSE IF ~reply.json THEN Raise(reply, 502, "invalid_json")
    ELSE [kind |-> "ok", code |-> 200, detail |-> "ok"] @@ reply.body

\* The details an InterviewEngineError carries.
EngineErrorDetails ==
    {"network_error", "bad_request", "engine_5xx", "engine_other", "invalid_json"}

\* What the engine can send back to generate_questions().
GenerateReplies ==
    Replies([fsid : EngineSessionIds, questions : SeqsUpTo(QuestionPool, MaxBatch)],
            [fsid |-> "", questions |-> <<>>])

\* What generate_questions() can do: raise InterviewEngineError(status_code),
\* or return {fastapi_session_id, questions}.
GenerateOutcomes == {Post(r) : r \in GenerateReplies}

\* count as sent to generate-more: too small, valid, too large.
CountInputs == {Some(0), Some(1), Some(51)}
\* Bodies of POST /interviews/: two valid ones, and one invalid in each field.
CreateInputs ==
    {[role |-> "dev", level |-> "MID_I", count |-> None],
     [role |-> "dev", level |-> "MID_I", count |-> Some(1)],
     [role |-> "", level |-> "MID_I", count |-> None],
     [role |-> "dev", level |-> "LEAD", count |-> None],
     [role |-> "dev", level |-> "MID_I", count |-> Some(0)],
     [role |-> "dev", level |-> "MID_I", count |-> Some(51)]}
Levels == {"JUNIOR_I", "JUNIOR_II", "MID_I", "MID_II", "SENIOR"}

\* X-Interview-Token header / ?t= query parameter; "" is "not presented".
TokenOf(sid) == IF sid = 1 THEN "tok1" ELSE "tok2"
TokenInputs == {"", "tok1", "tok2"}

\* Who sends a request on a session and what token comes with it: nobody
\* signed in without a token, with the session's token and with another one;
\* the user u1 without a token; the user u2 with the session's token.
Credentials ==
    {<<Anon, "">>, <<Anon, "tok1">>, <<Anon, "tok2">>, <<"u1", "">>, <<"u2", "tok1">>}

\* ------------------------------------------------------------------- state
VARIABLES
    sessions,      \* committed InterviewSession rows: id -> row
    turns,         \* committed InterviewTurn rows (a set of rows, each with its pk)
    nextSid,       \* next session id to hand out
    nextPk,        \* next InterviewTurn primary key
    rowLock,       \* session id -> worker holding SELECT ... FOR UPDATE, or ""
    pc,            \* worker -> where its handler stands
    loc,           \* worker -> the handler's local variables
    last,          \* the last response sent: operation, session, HTTP status
    nreq,          \* requests accepted so far
    clock,         \* the time timezone.now() returns; it advances with every stamp
    engineCalls,   \* outbound POSTs made so far
    deletedOrders, \* history: session id -> orders of turns deleted from it
    users,         \* committed User rows: pk -> email
    mock           \* the last two calls of the offline engine, newest first

\* The session store and the workers, the part of the state the views handle.
interview == <<sessions, turns, nextSid, nextPk, rowLock, pc, loc, last, nreq, clock,
               engineCalls, deletedOrders>>

\* The identity store and the offline engine's call log.
side == <<users, mock>>

vars == <<sessions, turns, nextSid, nextPk, rowLock, pc, loc, last, nreq, clock,
          engineCalls, deletedOrders, users, mock>>

NoLock == ""

Statuses == {"CREATED", "IN_PROGRESS", "COMPLETED", "FAILED", "CANCELLED"}
Terminal == {"COMPLETED", "FAILED", "CANCELLED"}

\* A fresh InterviewSession row (models.py field defaults).
NewSession(sid, owner, now) ==
    [id |-> sid, user |-> owner, public_token |-> TokenOf(sid),
     status |-> "CREATED", fastapi_session_id |-> "",
     overall_feedback |-> "", overall_score |-> None, overall_meta |-> "{}",
     created_at |-> now, updated_at |-> now,
     started_at |-> None, ended_at |-> None, evaluated_at |-> None]

\* A fresh InterviewTurn row (models.py field defaults).
NewTurn(pk, sid, order, question) ==
    [pk |-> pk, sid |-> sid, order |-> order, question |-> question,
     answer |-> <<>>, feedback |-> "", score |-> None, meta |-> "{}",
     answered_at |-> None]

TurnsOf(sid) == {t \in turns : t.sid = sid}
OrdersOf(sid) == {t.order : t \in TurnsOf(sid)}

\* Handler-local variables when no handler runs.
NoLoc ==
    [op |-> "none", sid |-> 0, count |-> 0, session |-> NewSession(0, NoUser, 0), snapshot |-> {},
     existing |-> {}, next_order |-> 0]

NoResponse == [op |-> "none", sid |-> 0, code |-> 0, detail |-> ""]

\* Response(body, status=code); detail names the message of the body.
Respond(op, sid, code, detail) ==
    [op |-> op, sid |-> sid, code |-> code, detail |-> detail]

\* The message that goes with a status code set by the framework.
Reason(code) ==
    IF code = 403 THEN "forbidden"
    ELSE IF code = 404 THEN "not_found"
    ELSE IF code = 400 THEN "validation"
    ELSE "ok"

Init ==
    /\ sessions = <<>>
    /\ turns = {}
    /\ nextSid = 1
    /\ nextPk = 1
    /\ rowLock = [s \in SessionIds |-> NoLock]
    /\ pc = [p \in Procs |-> "idle"]
    /\ loc = [p \in Procs |-> NoLoc]
    /\ last = NoResponse
    /\ nreq = 0
    /\ clock = 1
    /\ engineCalls = 0
    /\ deletedOrders = [s \in SessionIds |-> {}]
    /\ users = <<>>
    /\ mock = <<>>

\* The request budget is not used up, and p is the worker the server hands the
\* next request to: the first free one.
CanAccept(p) ==
    /\ nreq < MaxRequests
    /\ pc[p] = "idle"
    /\ (p = "p1" \/ pc["p1"] # "idle")

\* ---------------------------------------------------------- access control
\* Variant: an authenticated caller is let into a guest session without the token.
CanAccessSession_AuthSkipsToken(session, caller, token) ==
    IF session.user # NoUser
    THEN ~(caller = Anon \/ session.user # caller)
    ELSE caller # Anon \/ ~(token = "" \/ token # session.public_token)

\* Variant: any authenticated caller is let into an owned session.
CanAccessSession_AnyUser(session, caller, token) ==
    IF session.user # NoUser
    THEN caller # Anon
    ELSE ~(token = "" \/ token # session.public_token)

\* views.py can_access_session: TRUE where the code returns, FALSE where it
\* raises PermissionDenied.
CanAccessSession(session, caller, token) ==
    IF session.user # NoUser
    THEN ~(caller = Anon \/ session.user # caller)
    ELSE ~(token = "" \/ token # session.public_token)

\* ------------------------------------------------------------------ create
\* InterviewSessionCreateSerializer.is_valid(): role required and not blank,
\* level one of the choices, count absent or within 1..50.
ValidCreate(data) ==
    /\ data.role # ""
    /\ data.level \in Levels
    /\ (data.count = None \/ (data.count[1] >= CountMin /\ data.count[1] <= CountMax))

\* question_count = validated count or FASTAPI_DEFAULT_QUESTION_COUNT
CreateQuestionCount(count) == IF count = None THEN DefaultQuestionCount ELSE count[1]

\* POST /interviews/ up to the engine call (views.py 79-109).
CreateBegin(p, caller, data) ==
    /\ CanAccept(p)
    /\ nreq' = nreq + 1
    /\ IF ~ValidCreate(data)
       THEN /\ last' = Respond("create", 0, 400, "validation")
            /\ UNCHANGED <<pc, loc, nextSid, engineCalls>>
       ELSE /\ nextSid \in SessionIds
            /\ pc' = [pc EXCEPT ![p] = "create_engine"]
            /\ loc' = [loc EXCEPT ![p] =
                   [NoLoc EXCEPT !.op = "create", !.sid = nextSid,
                                 !.count = CreateQuestionCount(data.count),
                                 !.session = NewSession(nextSid,
                                     IF caller = Anon THEN NoUser ELSE caller, clock)]]
            /\ nextSid' = nextSid + 1
            /\ engineCalls' = Posted(engineCalls)
            /\ UNCHANGED last
    /\ UNCHANGED <<sessions, turns, nextPk, rowLock, clock, deletedOrders>>

\* InterviewTurn.objects.bulk_create of questions at orders first, first+1, ...
TurnBatch(sid, first, pk0, questions) ==
    {NewTurn(pk0 + i - 1, sid, first + i - 1, questions[i]) : i \in 1..Len(questions)}

\* Variant: create fails the session on an engine error only.
CreateResult_NoEmptyCheck(session, out, now) ==
    IF out.kind = "error"
    THEN [session EXCEPT !.status = "FAILED", !.updated_at = now]
    ELSE [session EXCEPT !.fastapi_session_id = out.fsid,
                         !.status = "IN_PROGRESS",
                         !.started_at = IF session.started_at = None
                                        THEN Some(now) ELSE session.started_at,
                         !.updated_at = now]

\* The session row create commits, given what the engine did (views.py 108-127).
CreateResult(session, out, now) ==
    IF out.kind = "error" \/ CleanQuestions(out.questions) = <<>>
    THEN [session EXCEPT !.status = "FAILED", !.updated_at = now]
    ELSE [session EXCEPT !.fastapi_session_id = out.fsid,
                         !.status = "IN_PROGRESS",
                         !.started_at = IF session.started_at = None
                                        THEN Some(now) ELSE session.started_at,
                         !.updated_at = now]

\* The turns create commits with it (views.py 129-134).
CreateTurns(session, out, pk0) ==
    IF out.kind = "error" THEN {}
    ELSE TurnBatch(session.id, 1, pk0, CleanQuestions(out.questions))

\* Variant: create answers every engine failure with 502.
CreateStatusCode_BadGateway(out) ==
    IF out.kind = "error" \/ CleanQuestions(out.questions) = <<>> THEN 502 ELSE 201

CreateStatusCode(out) ==
    IF out.kind = "error" THEN out.code
    ELSE IF CleanQuestions(out.questions) = <<>> THEN 502 ELSE 201

CreateDetail(out) ==
    IF out.kind = "error" THEN out.detail
    ELSE IF CleanQuestions(out.questions) = <<>> THEN "no_questions" ELSE "ok"

\* POST /interviews/ from the engine's answer to the response (views.py 108-139).
CreateEngineReturns(p, out) ==
    /\ pc[p] = "create_engine"
    /\ LET l == loc[p]
           new == CreateTurns(l.session, out, nextPk)
       IN  /\ sessions' = (l.sid :> CreateResult(l.session, out, clock)) @@ sessions
           /\ turns' = turns \cup new
           /\ nextPk' = nextPk + Cardinality(new)
           /\ last' = Respond("create", l.sid, CreateStatusCode(out), CreateDetail(out))
    /\ clock' = clock + 1
    /\ pc' = [pc EXCEPT ![p] = "idle"]
    /\ loc' = [loc EXCEPT ![p] = NoLoc]
    /\ UNCHANGED <<nextSid, rowLock, nreq, engineCalls, deletedOrders>>

\* ------------------------------------------------------------------ detail
\* GET /interviews/<id>/ (views.py 149-156).
DetailStatusCode(sid, caller, token) ==
    IF sid \notin DOMAIN sessions THEN 404
    ELSE IF ~CanAccessSession(sessions[sid], caller, token) THEN 403
    ELSE 200

Detail(p, sid, caller, token) ==
    /\ CanAccept(p)
    /\ nreq' = nreq + 1
    /\ last' = Respond("detail", sid, DetailStatusCode(sid, caller, token),
                     Reason(DetailStatusCode(sid, caller, token)))
    /\ UNCHANGED <<sessions, turns, nextSid, nextPk, rowLock, pc, loc, clock,
                   engineCalls, deletedOrders>>

\* ----------------------------------------------------------- generate more
\* InterviewGenerateSerializer: count defaults to 3, must lie within 1..50.
ValidCount(count) ==
    count = None \/ (count[1] >= CountMin /\ count[1] <= CountMax)

\* count = min(validated count, FASTAPI_MAX_GENERATE_COUNT)
GenerateCount(count) ==
    Min(IF count = None THEN DefaultGenerateCount ELSE count[1], MaxGenerateCount)

\* Variant: the existing questions are compared as they are spelled.
ExistingSet_CaseSensitive(sid) ==
    {Strip(t.question) : t \in {u \in TurnsOf(sid) : Usable(u.question)}}

\* {question.strip().lower() for question in existing if question and question.strip()}
ExistingSet(sid) ==
    {Lower(Strip(t.question)) : t \in {u \in TurnsOf(sid) : Usable(u.question)}}

\* Variant: the lowest order no turn of the session has.
NextOrder_FillGap(sid) ==
    CHOOSE n \in 1..(Cardinality(OrdersOf(sid)) + 1) :
        /\ n \notin OrdersOf(sid)
        /\ \A m \in 1..(n - 1) : m \in OrdersOf(sid)

\* (max existing order, 0 when there is none) + 1
NextOrder(sid) ==
    (IF OrdersOf(sid) = {} THEN 0 ELSE SetMax(OrdersOf(sid))) + 1

\* Variant: the session row is read without select_for_update().
RowLockFree_NoLock(sid) == TRUE

\* Variant: one lock for the whole table of sessions.
RowLockFree_TableLock(sid) == \A s \in DOMAIN rowLock : rowLock[s] = NoLock

\* select_for_update() on the session row: it is granted when no other
\* transaction holds the row.
RowLockFree(sid) == rowLock[sid] = NoLock

\* POST /interviews/<id>/generate/ up to the engine call (views.py 162-200).
GenerateBegin(p, sid, caller, token, count) ==
    /\ CanAccept(p)
    /\ nreq' = nreq + 1
    /\ IF ~ValidCount(count)
       THEN /\ last' = Respond("generate", sid, 400, "validation")
            /\ UNCHANGED <<pc, loc, rowLock, engineCalls>>
       ELSE IF sid \notin DOMAIN sessions
       THEN /\ last' = Respond("generate", sid, 404, "not_found")
            /\ UNCHANGED <<pc, loc, rowLock, engineCalls>>
       ELSE /\ RowLockFree(sid)
            /\ IF ~CanAccessSession(sessions[sid], caller, token)
               THEN /\ last' = Respond("generate", sid, 403, "forbidden")
                    /\ UNCHANGED <<pc, loc, rowLock, engineCalls>>
               ELSE /\ pc' = [pc EXCEPT ![p] = "generate_engine"]
                    /\ loc' = [loc EXCEPT ![p] =
                           [NoLoc EXCEPT !.op = "generate", !.sid = sid,
                                         !.count = GenerateCount(count),
                                         !.session = sessions[sid],
                                         !.existing = ExistingSet(sid),
                                         !.next_order = NextOrder(sid)]]
                    /\ rowLock' = [rowLock EXCEPT ![sid] = p]
                    /\ engineCalls' = Posted(engineCalls)
                    /\ UNCHANGED last
    /\ UNCHANGED <<sessions, turns, nextSid, nextPk, clock, deletedOrders>>

\* Variant: the cleaned questions are all kept.
NewQuestions_NoDedup(out, existing) == CleanQuestions(out.questions)

\* questions_list: cleaned, then those not in existing_set (views.py 207-212).
NewQuestions(out, existing) ==
    LET NotSeen(q) == Lower(Strip(q)) \notin existing
    IN  SelectSeq(CleanQuestions(out.questions), NotSeen)

\* The unique constraint uniq_session_turn_order rejects the batch
\* (IntegrityError) when one of its orders is already taken.
UniqueViolation(sid, batch) ==
    \E t \in batch : t.order \in OrdersOf(sid)

\* session.fastapi_session_id after views.py 204-205
GenerateSessionId(session, out) ==
    IF out.fsid # "" /\ session.fastapi_session_id = ""
    THEN out.fsid ELSE session.fastapi_session_id

\* Variant: generate-more closes the session.
GenerateStatus_Completed(session) == "COMPLETED"

\* The status generate-more saves (views.py 227).
GenerateStatus(session) == "IN_PROGRESS"

\* Variant: generate-more treats an engine failure as create does, and fails
\* the session.
GenerateEngineReturns_FailsSession(p, out) ==
    /\ pc[p] = "generate_engine"
    /\ out.kind = "error"
    /\ sessions' = [sessions EXCEPT ![loc[p].sid] =
                       [@ EXCEPT !.status = "FAILED", !.updated_at = clock]]
    /\ clock' = clock + 1
    /\ last' = Respond("generate", loc[p].sid, out.code, out.detail)
    /\ rowLock' = [rowLock EXCEPT ![loc[p].sid] = NoLock]
    /\ pc' = [pc EXCEPT ![p] = "idle"]
    /\ loc' = [loc EXCEPT ![p] = NoLoc]
    /\ UNCHANGED <<turns, nextSid, nextPk, nreq, engineCalls, deletedOrders>>

\* POST /interviews/<id>/generate/ from the engine's answer on (views.py 199-231).
GenerateEngineReturns(p, out) ==
    /\ pc[p] = "generate_engine"
    /\ LET l == loc[p]
           qs == NewQuestions(out, l.existing)
           batch == TurnBatch(l.sid, l.next_order, nextPk, qs)
       IN  IF out.kind = "error"
           THEN /\ last' = Respond("generate", l.sid, out.code, out.detail)
                /\ UNCHANGED <<sessions, turns, nextPk, clock>>
           ELSE IF qs = <<>>
           THEN /\ last' = Respond("generate", l.sid, 400, "no_new_questions")
                /\ UNCHANGED <<sessions, turns, nextPk, clock>>
           ELSE IF UniqueViolation(l.sid, batch)
           THEN /\ last' = Respond("generate", l.sid, 500, "integrity_error")
                /\ UNCHANGED <<sessions, turns, nextPk, clock>>
           ELSE /\ turns' = turns \cup batch
                /\ nextPk' = nextPk + Cardinality(batch)
                /\ sessions' = [sessions EXCEPT ![l.sid] =
                       [@ EXCEPT !.status = GenerateStatus(l.session),
                                 !.fastapi_session_id = GenerateSessionId(l.session, out),
                                 !.updated_at = clock]]
                /\ clock' = clock + 1
                /\ last' = Respond("generate", l.sid, 200, "ok")
    /\ rowLock' = [rowLock EXCEPT ![loc[p].sid] = NoLock]
    /\ pc' = [pc EXCEPT ![p] = "idle"]
    /\ loc' = [loc EXCEPT ![p] = NoLoc]
    /\ UNCHANGED <<nextSid, nreq, engineCalls, deletedOrders>>

\* ----------------------------------------------- record answer, delete turn
\* Request bodies of PATCH: no answer field, or an answer text.
AnswerInputs == {None, Some(<<" ">>), Some(<<"x", " ">>)}

\* Variant: the lookup matches every turn up to the order.
TurnAt_UpTo(sid, order) == {t \in TurnsOf(sid) : t.order <= order}

\* get_object_or_404(InterviewTurn, session=session, order=order)
TurnAt(sid, order) == {t \in TurnsOf(sid) : t.order = order}

\* The status code of the checks PATCH and DELETE share (views.py 238-240, 253-255).
TurnLookupCode(sid, order, caller, token) ==
    IF sid \notin DOMAIN sessions THEN 404
    ELSE IF ~CanAccessSession(sessions[sid], caller, token) THEN 403
    ELSE IF TurnAt(sid, order) = {} THEN 404
    ELSE 200

\* serializers.CharField(allow_blank=True) trims the value it validates.
ValidatedAnswer(answer) == Strip(answer[1])

\* Variant: answered_at is stamped whatever the answer.
AnsweredTurn_AlwaysStamped(t, answer, now) ==
    [t EXCEPT !.answer = answer, !.answered_at = Some(now)]

\* turn.answer, turn.answered_at as PATCH saves them (views.py 246-248).
AnsweredTurn(t, answer, now) ==
    [t EXCEPT !.answer = answer,
              !.answered_at = IF Strip(answer) # <<>> THEN Some(now) ELSE None]

\* PATCH /interviews/<id>/questions/<order>/ (views.py 237-250).
RecordAnswer(p, sid, order, caller, token, answer) ==
    /\ CanAccept(p)
    /\ nreq' = nreq + 1
    /\ LET code == TurnLookupCode(sid, order, caller, token)
       IN  IF code # 200
           THEN /\ last' = Respond("answer", sid, code, Reason(code))
                /\ UNCHANGED <<turns, clock>>
           ELSE IF answer = None
           THEN /\ last' = Respond("answer", sid, 400, "validation")
                /\ UNCHANGED <<turns, clock>>
           ELSE /\ last' = Respond("answer", sid, 200, "ok")
                /\ clock' = clock + 1
                /\ turns' = {IF t \in TurnAt(sid, order)
                             THEN AnsweredTurn(t, ValidatedAnswer(answer), clock)
                             ELSE t : t \in turns}
    /\ UNCHANGED <<sessions, nextSid, nextPk, rowLock, pc, loc, engineCalls,
                   deletedOrders>>

\* Variant: DELETE removes the turn before it checks the caller's access.
DeleteQuestion_ChecksLate(p, sid, order, caller, token) ==
    /\ CanAccept(p)
    /\ nreq' = nreq + 1
    /\ LET code == TurnLookupCode(sid, order, caller, token)
       IN  IF code = 404
           THEN /\ last' = Respond("delete", sid, code, Reason(code))
                /\ UNCHANGED <<turns, deletedOrders>>
           ELSE /\ last' = IF code = 403 THEN Respond("delete", sid, code, Reason(code))
                                         ELSE Respond("delete", sid, 204, "ok")
                /\ turns' = turns \ TurnAt(sid, order)
                /\ deletedOrders' = [deletedOrders EXCEPT ![sid] = @ \cup {order}]
    /\ UNCHANGED <<sessions, nextSid, nextPk, rowLock, pc, loc, clock, engineCalls>>

\* DELETE /interviews/<id>/questions/<order>/ (views.py 252-257).
DeleteQuestion(p, sid, order, caller, token) ==
    /\ CanAccept(p)
    /\ nreq' = nreq + 1
    /\ LET code == TurnLookupCode(sid, order, caller, token)
       IN  IF code # 200
           THEN /\ last' = Respond("delete", sid, code, Reason(code))
                /\ UNCHANGED <<turns, deletedOrders>>
           ELSE /\ last' = Respond("delete", sid, 204, "ok")
                /\ turns' = turns \ TurnAt(sid, order)
                /\ deletedOrders' = [deletedOrders EXCEPT ![sid] = @ \cup {order}]
    /\ UNCHANGED <<sessions, nextSid, nextPk, rowLock, pc, loc, clock, engineCalls>>

\* ---------------------------------------------------------------- evaluate
\* Bodies of POST evaluate: accepted by InterviewEvaluateSerializer, or not
\* (include_summary that is no boolean).
EvaluateInputs == {"ok", "bad"}

\* One entry of the engine's "results": its "order" as the engine wrote it (an
\* integer, or the same number as a string), and whether feedback, score and
\* meta are present.
ResultForms == {"int", "str"}
FullResult == [feedback |-> Some("fb"), score |-> Some(5), meta |-> Some("m")]
BareResult == [feedback |-> None, score |-> None, meta |-> None]
ResultItem(form, order, body) == [order |-> <<form, order>>, body |-> body]

\* The "overall" object of an evaluate response, when there is one.
OverallResult == [feedback |-> Some("ofb"), score |-> Some(7), meta |-> Some("om")]

\* For each order sent, what the engine returns for it.
ResultChoices == {"omit", "int", "str", "bare"}
ResultsFor(choice) ==
    {IF choice[o] = "bare" THEN ResultItem("int", o, BareResult)
     ELSE ResultItem(choice[o], o, FullResult) :
        o \in {x \in DOMAIN choice : choice[x] # "omit"}}

\* What the engine can send back to evaluate_interview() for the orders sent.
EvaluateReplies(orders) ==
    Replies([results : {ResultsFor(c) : c \in [orders -> ResultChoices]},
             overall : {None, Some(OverallResult)}],
            [results |-> {}, overall |-> None])

\* What evaluate_interview() can do for the orders sent: raise
\* InterviewEngineError(status_code), or return {results, overall?}.
EvaluateOutcomes(orders) == {Post(r) : r \in EvaluateReplies(orders)}

\* Variant: evaluate does not look for blank answers.
BlankOrders_Skipped(sid) == {}

\* missing_orders of views.py 273: turns whose answer is blank after strip().
BlankOrders(sid) == {t.order : t \in {u \in TurnsOf(sid) : Strip(u.answer) = <<>>}}

\* POST /interviews/<id>/evaluate/ up to the engine call (views.py 263-295).
EvaluateBegin(p, sid, caller, token, data) ==
    /\ CanAccept(p)
    /\ nreq' = nreq + 1
    /\ IF data # "ok"
       THEN /\ last' = Respond("evaluate", sid, 400, "validation")
            /\ UNCHANGED <<pc, loc, engineCalls>>
       ELSE IF sid \notin DOMAIN sessions
       THEN /\ last' = Respond("evaluate", sid, 404, "not_found")
            /\ UNCHANGED <<pc, loc, engineCalls>>
       ELSE IF ~CanAccessSession(sessions[sid], caller, token)
       THEN /\ last' = Respond("evaluate", sid, 403, "forbidden")
            /\ UNCHANGED <<pc, loc, engineCalls>>
       ELSE IF BlankOrders(sid) # {}
       THEN /\ last' = Respond("evaluate", sid, 400, "missing_answers")
            /\ UNCHANGED <<pc, loc, engineCalls>>
       ELSE /\ pc' = [pc EXCEPT ![p] = "evaluate_engine"]
            /\ loc' = [loc EXCEPT ![p] =
                   [NoLoc EXCEPT !.op = "evaluate", !.sid = sid,
                                 !.session = sessions[sid],
                                 !.snapshot = TurnsOf(sid)]]
            /\ engineCalls' = Posted(engineCalls)
            /\ UNCHANGED last
    /\ UNCHANGED <<sessions, turns, nextSid, nextPk, rowLock, clock, deletedOrders>>

\* int(order) for the keys of the results dict (views.py 301).
ReturnedOrders(results) == {r.order[2] : r \in results}

\* Variant: evaluate does not compare the returned orders with those sent.
MissingOrders_Off(snapshot, results) == {}

\* expected_orders - returned_orders (views.py 300-302).
MissingOrders(snapshot, results) ==
    {t.order : t \in snapshot} \ ReturnedOrders(results)

\* results.get(turn.order): the entry whose key equals the turn's integer order.
ResultLookup(results, order) == {r \in results : r.order = <<"int", order>>}

\* x.get(key, default) or default
GetOr(field, default) == IF field = None THEN default ELSE field[1]

\* The turn as saved from its result (views.py 320-323).
EvaluatedTurn(t, r) ==
    [t EXCEPT !.feedback = GetOr(r.body.feedback, ""),
              !.score = r.body.score,
              !.meta = GetOr(r.body.meta, "{}")]

\* The snapshot turns that get a result, with that result applied.
TurnUpdates(snapshot, results) ==
    {EvaluatedTurn(t, r) : <<t, r>> \in
        {x \in snapshot \X results : x[2] \in ResultLookup(results, x[1].order)}}

\* Variant: the session's row is not written with the turns.
EvaluatedSession_NotWritten(row, mem, out, now) == row

\* The session fields evaluate saves (views.py 325-344).
EvaluatedSession(row, mem, out, now) ==
    [row EXCEPT
        !.overall_feedback = IF out.overall = None THEN mem.overall_feedback
                             ELSE GetOr(out.overall[1].feedback, ""),
        !.overall_score = IF out.overall = None THEN mem.overall_score
                          ELSE out.overall[1].score,
        !.overall_meta = IF out.overall = None THEN mem.overall_meta
                         ELSE GetOr(out.overall[1].meta, "{}"),
        !.status = "COMPLETED",
        !.ended_at = Some(now),
        !.evaluated_at = Some(now),
        !.updated_at = now]

\* POST /interviews/<id>/evaluate/ from the engine's answer on (views.py 294-347).
\* turn.save(update_fields=...) writes the row with the turn's pk and raises
\* DatabaseError when that row is gone; session.save() waits for the row lock.
EvaluateEngineReturns(p, out) ==
    /\ pc[p] = "evaluate_engine"
    /\ LET l == loc[p]
           updates == TurnUpdates(l.snapshot, out.results)
           pks == {t.pk : t \in updates}
       IN  IF out.kind = "error"
           THEN /\ last' = Respond("evaluate", l.sid, out.code, out.detail)
                /\ UNCHANGED <<sessions, turns, clock>>
           ELSE IF MissingOrders(l.snapshot, out.results) # {}
           THEN /\ last' = Respond("evaluate", l.sid, 502, "incomplete_results")
                /\ UNCHANGED <<sessions, turns, clock>>
           ELSE IF \E k \in pks : k \notin {t.pk : t \in turns}
           THEN /\ last' = Respond("evaluate", l.sid, 500, "database_error")
                /\ UNCHANGED <<sessions, turns, clock>>
           ELSE /\ RowLockFree(l.sid)
                /\ turns' = {t \in turns : t.pk \notin pks} \cup
                            {[(CHOOSE t \in turns : t.pk = u.pk) EXCEPT
                                  !.feedback = u.feedback, !.score = u.score,
                                  !.meta = u.meta] : u \in updates}
                /\ sessions' = [sessions EXCEPT ![l.sid] =
                                   EvaluatedSession(@, l.session, out, clock)]
                /\ clock' = clock + 1
                /\ last' = Respond("evaluate", l.sid, 200, "ok")
    /\ pc' = [pc EXCEPT ![p] = "idle"]
    /\ loc' = [loc EXCEPT ![p] = NoLoc]
    /\ UNCHANGED <<nextSid, nextPk, rowLock, nreq, engineCalls, deletedOrders>>

\* ------------------------------------------------------------------- admin
\* An administrator cancels a session that is in progress.
AdminCancel(sid) ==
    /\ nreq < MaxRequests
    /\ sid \in DOMAIN sessions
    /\ sessions[sid].status = "IN_PROGRESS"
    /\ RowLockFree(sid)
    /\ nreq' = nreq + 1
    /\ sessions' = [sessions EXCEPT ![sid] =
                       [@ EXCEPT !.status = "CANCELLED", !.updated_at = clock]]
    /\ clock' = clock + 1
    /\ last' = Respond("admin_cancel", sid, 200, "ok")
    /\ UNCHANGED <<turns, nextSid, nextPk, rowLock, pc, loc, engineCalls,
                   deletedOrders>>

\* The orders a client may name: those of the session's turns, and 0, which no turn has.
OrderInputs(sid) == OrdersOf(sid) \cup {0}

\* The callers who open sessions.  User identities are interchangeable, so u1
\* stands for the owner and u2 for any other authenticated user.
Creators == {Anon, "u1"}

\* Every step is a worker taking a request (its handler runs up to the engine
\* call, or to its response), the engine answering a waiting handler, or an
\* administrator's change.
Next ==
    \/ UNCHANGED side /\ \E p \in Procs : CanAccept(p) /\
          \E caller \in Creators, data \in CreateInputs : CreateBegin(p, caller, data)
    \/ UNCHANGED side /\ \E p \in Procs : pc[p] = "create_engine" /\
          \E r \in GenerateReplies : CreateEngineReturns(p, Post(r))
    \/ UNCHANGED side /\ \E p \in Procs : CanAccept(p) /\
          \E sid \in SessionIds, c \in Credentials : Detail(p, sid, c[1], c[2])
    \/ UNCHANGED side /\ \E p \in Procs : CanAccept(p) /\
          \E sid \in SessionIds, c \in Credentials, count \in CountInputs :
              GenerateBegin(p, sid, c[1], c[2], count)
    \/ UNCHANGED side /\ \E p \in Procs : pc[p] = "generate_engine" /\
          \E r \in GenerateReplies : GenerateEngineReturns(p, Post(r))
    \/ UNCHANGED side /\ \E p \in Procs : CanAccept(p) /\
          \E sid \in SessionIds, c \in Credentials, answer \in AnswerInputs :
              \E order \in OrderInputs(sid) :
                  RecordAnswer(p, sid, order, c[1], c[2], answer)
    \/ UNCHANGED side /\ \E p \in Procs : CanAccept(p) /\
          \E sid \in SessionIds, c \in Credentials :
              \E order \in OrderInputs(sid) : DeleteQuestion(p, sid, order, c[1], c[2])
    \/ UNCHANGED side /\ \E p \in Procs : CanAccept(p) /\
          \E sid \in SessionIds, c \in Credentials, data \in EvaluateInputs :
              EvaluateBegin(p, sid, c[1], c[2], data)
    \/ UNCHANGED side /\ \E p \in Procs : pc[p] = "evaluate_engine" /\
          \E r \in EvaluateReplies({t.order : t \in loc[p].snapshot}) :
              EvaluateEngineReturns(p, Post(r))
    \/ UNCHANGED side /\ \E sid \in SessionIds : AdminCancel(sid)

Spec == Init /\ [][Next]_vars

\* ================================================================== claims
\* What a step shows of the request it serves.
GuestSession(sid) == sid \in DOMAIN sessions /\ sessions[sid].user = NoUser
OwnedSession(sid) == sid \in DOMAIN sessions /\ sessions[sid].user # NoUser
RightToken(sid, token) == token # "" /\ token = sessions[sid].public_token

\* The request is answered 403 and nothing else happens.
Denied(op, sid) ==
    /\ last' = Respond(op, sid, 403, "forbidden")
    /\ UNCHANGED <<sessions, turns, nextSid, nextPk, rowLock, pc, loc, clock,
                   engineCalls, deletedOrders>>

\* The request gets past the access check: it is not answered 403.
Admitted == pc' # pc \/ last'.code # 403

\* The operation the step serves: that of the handler it leaves waiting for the
\* engine, or that of the response it sends.
StepOp(p) == IF ~CanAccept(p) THEN "none"
             ELSE IF pc'[p] # pc[p] THEN loc'[p].op ELSE last'.op

\* The steps of each operation on session sid with credentials c, the request
\* body being valid.
DetailStep(p, sid, c) == StepOp(p) = "detail" /\ Detail(p, sid, c[1], c[2])
GenerateStep(p, sid, c) ==
    /\ StepOp(p) = "generate"
    /\ \E count \in {k \in CountInputs : ValidCount(k)} :
          GenerateBegin(p, sid, c[1], c[2], count)
EvaluateStep(p, sid, c) ==
    StepOp(p) = "evaluate" /\ EvaluateBegin(p, sid, c[1], c[2], "ok")
AnswerStep(p, sid, c) ==
    /\ StepOp(p) = "answer"
    /\ \E answer \in AnswerInputs, order \in OrderInputs(sid) :
          RecordAnswer(p, sid, order, c[1], c[2], answer)
DeleteStep(p, sid, c) ==
    /\ StepOp(p) = "delete"
    /\ \E order \in OrderInputs(sid) : DeleteQuestion(p, sid, order, c[1], c[2])

\* C1: every create that reaches the engine ends with the session IN_PROGRESS
\* with at least one turn, the orders being exactly 1..N, or FAILED with no
\* turn; no committed session is in CREATED.
C1_CreateOutcome ==
    [][\A p \in Procs :
          (pc[p] = "create_engine" /\ pc'[p] = "idle") =>
              LET sid == loc[p].sid
                  mine == {t \in turns' : t.sid = sid}
                  orders == {t.order : t \in mine}
              IN  /\ sid \in DOMAIN sessions'
                  /\ \A s \in DOMAIN sessions' : sessions'[s].status # "CREATED"
                  /\ \/ /\ sessions'[sid].status = "IN_PROGRESS"
                        /\ orders # {}
                        /\ orders = 1..Cardinality(orders)
                        /\ Cardinality(mine) = Cardinality(orders)
                     \/ /\ sessions'[sid].status = "FAILED"
                        /\ mine = {}]_vars

\* A create has just seeded a session with the two turns 1 and 2.
C1_Witness ==
    /\ last.op = "create" /\ last.code = 201
    /\ 1 \in DOMAIN sessions
    /\ sessions[1].status = "IN_PROGRESS"
    /\ OrdersOf(1) = {1, 2}

\* C2: on a guest session, detail, generate, evaluate and answer requests are
\* denied without the session's token and admitted with it, whoever calls.
C2_GuestToken ==
    [][\A sid \in SessionIds :
          (nreq' = nreq + 1 /\ GuestSession(sid)) =>
              \A p \in Procs, c \in Credentials :
                  \/ IF RightToken(sid, c[2]) THEN Admitted ELSE Denied(last'.op, sid)
                  \/ ~(\/ DetailStep(p, sid, c) \/ GenerateStep(p, sid, c)
                       \/ EvaluateStep(p, sid, c) \/ AnswerStep(p, sid, c))]_vars

\* A turn of a guest session has just been answered.
C2_Witness ==
    /\ GuestSession(1)
    /\ last = Respond("answer", 1, 200, "ok")

\* C3: on an owned session, detail, generate, answer, delete and evaluate
\* requests are admitted only from the owner; anyone else is denied, token or
\* not, and the denied request changes nothing.
C3_OwnerOnly ==
    [][\A sid \in SessionIds :
          (nreq' = nreq + 1 /\ OwnedSession(sid)) =>
              \A p \in Procs, c \in Credentials :
                  \/ IF c[1] # Anon /\ c[1] = sessions[sid].user THEN Admitted
                     ELSE Denied(last'.op, sid)
                  \/ ~(\/ DetailStep(p, sid, c) \/ GenerateStep(p, sid, c)
                       \/ EvaluateStep(p, sid, c) \/ AnswerStep(p, sid, c)
                       \/ DeleteStep(p, sid, c))]_vars

\* A delete on an owned session has just been denied.
C3_Witness ==
    /\ OwnedSession(1)
    /\ TurnsOf(1) # {}
    /\ last = Respond("delete", 1, 403, "forbidden")

\* C4: no two turns of a session have the same order, and no generate-more
\* runs into the uniqueness constraint.
C4_UniqueOrders ==
    /\ \A t1, t2 \in turns :
          (t1.sid = t2.sid /\ t1.order = t2.order) => t1 = t2
    /\ last.detail # "integrity_error"

\* A generate-more holds the row lock after an earlier one added turns.
C4_Witness ==
    /\ \E p \in Procs : pc[p] = "generate_engine" /\ rowLock[1] = p
    /\ last = Respond("generate", 1, 200, "ok")
    /\ Cardinality(TurnsOf(1)) >= 2

\* The orders a generate-more step adds, and the session it adds them to.
AddedOrders == {t.order : t \in turns' \ turns}
GenerateAdds(p) ==
    pc[p] = "generate_engine" /\ pc'[p] = "idle" /\ turns' # turns

\* C5 as claimed: new turns get orders above the current maximum and never an
\* order a deleted turn of the session once had.
C5_NeverReusesDeleted ==
    [][\A p \in Procs :
          GenerateAdds(p) =>
              /\ \A n \in AddedOrders : \A e \in OrdersOf(loc[p].sid) : n > e
              /\ AddedOrders \cap deletedOrders[loc[p].sid] = {}]_vars

\* C5 amended: new turns get orders above every existing order, so the order of
\* a deleted turn that lies below an existing one is never given again.
C5_AppendsAfterMax ==
    [][\A p \in Procs :
          GenerateAdds(p) =>
              /\ \A n \in AddedOrders : \A e \in OrdersOf(loc[p].sid) : n > e
              /\ \A d \in deletedOrders[loc[p].sid] :
                    (\E e \in OrdersOf(loc[p].sid) : d < e) => d \notin AddedOrders]_vars

\* A generate-more has just added turns while a gap left by a delete remains.
C5_Witness ==
    /\ last = Respond("generate", 1, 200, "ok")
    /\ \E d \in deletedOrders[1] :
          d \notin OrdersOf(1) /\ \E e \in OrdersOf(1) : d < e

\* C6 as claimed: once a session is FAILED, COMPLETED or CANCELLED, no request
\* changes its status.
C6_TerminalIsFinal ==
    [][\A sid \in DOMAIN sessions :
          sessions[sid].status \in Terminal =>
              sessions'[sid].status = sessions[sid].status]_vars

\* C7 as claimed: a generate-more request on a session that is FAILED,
\* COMPLETED or CANCELLED does not call the engine, and adds no turns.
C7_GenerateNeedsActive ==
    [][/\ \A sid \in DOMAIN sessions :
             (sessions[sid].status \in Terminal /\ nreq' = nreq + 1) =>
                 \A p \in Procs, c \in Credentials :
                     GenerateStep(p, sid, c) =>
                         (engineCalls' = engineCalls /\ pc' = pc)
       /\ \A p \in Procs :
             (pc[p] = "generate_engine" /\ loc[p].session.status \in Terminal) =>
                 turns' = turns]_vars

\* C8: an evaluate request by a caller with access, on a session one of whose
\* turns has an answer that is blank after trimming, is answered 400 without
\* an engine call and changes nothing, so that repeating it gives the same
\* answer in the same state.
C8_BlankRejected ==
    [][\A sid \in DOMAIN sessions :
          (nreq' = nreq + 1 /\ \E t \in TurnsOf(sid) : Strip(t.answer) = <<>>) =>
              \A p \in Procs, c \in Credentials :
                  (CanAccessSession(sessions[sid], c[1], c[2]) /\ EvaluateStep(p, sid, c)) =>
                      /\ last' = Respond("evaluate", sid, 400, "missing_answers")
                      /\ UNCHANGED <<sessions, turns, nextSid, nextPk, rowLock, pc, loc,
                                     clock, engineCalls, deletedOrders>>]_vars

\* An evaluate has just been rejected for a blank answer, the only engine call
\* so far being that of the create.
C8_Witness ==
    /\ last = Respond("evaluate", 1, 400, "missing_answers")
    /\ \E t \in TurnsOf(1) : Strip(t.answer) = <<>>
    /\ engineCalls = 1

\* C9 as claimed: when evaluate answers 200, the session is COMPLETED and every
\* turn of the session has a score.
C9_EvaluatedAllScored ==
    [][\A p \in Procs :
          (pc[p] = "evaluate_engine" /\ pc'[p] = "idle" /\ last'.code = 200) =>
              /\ sessions'[loc[p].sid].status = "COMPLETED"
              /\ \A t \in turns' : t.sid = loc[p].sid => t.score # None]_vars

C12_CreateFailure ==
    [][\A p \in Procs :
          (pc[p] = "create_engine" /\ pc'[p] = "idle") =>
              \A r \in GenerateReplies :
                  LET failed == Post(r).kind = "error"
                      unusable == \A i \in 1..Len(r.body.questions) :
                                      Strip(r.body.questions[i]) = <<>>
                      sid == loc[p].sid
                  IN  (CreateEngineReturns(p, Post(r)) /\ (failed \/ unusable)) =>
                          /\ sid \in DOMAIN sessions'
                          /\ sessions'[sid].status = "FAILED"
                          /\ \A t \in turns' : t.sid # sid
                          /\ IF failed
                             THEN last' = Respond("create", sid, Post(r).code, Post(r).detail)
                             ELSE last'.op = "create" /\ last'.code = 502]_vars

\* A create whose engine call was rejected with 400 has left a FAILED session
\* without turns.
C12_Witness ==
    /\ last = Respond("create", 1, 400, "bad_request")
    /\ 1 \in DOMAIN sessions
    /\ sessions[1].status = "FAILED"
    /\ TurnsOf(1) = {}

\* C13: when the engine call of a generate-more or of an evaluate fails, the
\* step that answers the request leaves every session and every turn as it
\* was, and relays the error's status; a network failure is answered 502.
C13_EngineFailureFrame ==
    [][\A p \in Procs :
          /\ (pc[p] = "generate_engine" /\ pc'[p] = "idle") =>
                \A r \in GenerateReplies :
                    (Post(r).kind = "error" /\ GenerateEngineReturns(p, Post(r))) =>
                        /\ UNCHANGED <<sessions, turns>>
                        /\ last' = Respond("generate", loc[p].sid, Post(r).code, Post(r).detail)
                        /\ r.kind = "network" => last'.code = 502
          /\ (pc[p] = "evaluate_engine" /\ pc'[p] = "idle") =>
                \A r \in EvaluateReplies({t.order : t \in loc[p].snapshot}) :
                    (Post(r).kind = "error" /\ EvaluateEngineReturns(p, Post(r))) =>
                        /\ UNCHANGED <<sessions, turns>>
                        /\ last' = Respond("evaluate", loc[p].sid, Post(r).code, Post(r).detail)
                        /\ r.kind = "network" => last'.code = 502]_vars

\* A generate-more on a session in progress has just been answered 502 for a
\* network failure.
C13_Witness ==
    /\ last = Respond("generate", 1, 502, "network_error")
    /\ sessions[1].status = "IN_PROGRESS"
    /\ TurnsOf(1) # {}

\* A question text as generate-more compares it: trimmed and lowercased.
Normal(q) == Lower(Strip(q))

\* The questions of the turns a step adds, by ascending order from first on.
AddedQuestions(first) ==
    [i \in 1..Cardinality(turns' \ turns) |->
        (CHOOSE t \in turns' \ turns : t.order = first + i - 1).question]

\* C14: the turns a generate-more adds have questions that differ, trimmed and
\* lowercased, from the question of every turn of the session; they take the
\* consecutive orders from the call's next_order on; and their questions are,
\* in the engine's order, trimmed questions of the engine's response.
C14_DedupAndOrder ==
    [][\A p \in Procs :
          GenerateAdds(p) =>
              LET sid == loc[p].sid
                  added == turns' \ turns
                  k == Cardinality(added)
                  first == loc[p].next_order
              IN  /\ \A n \in added : n.sid = sid
                  /\ \A n \in added, e \in TurnsOf(sid) :
                        Normal(n.question) # Normal(e.question)
                  /\ {n.order : n \in added} = first..(first + k - 1)
                  /\ \A r \in GenerateReplies :
                        GenerateEngineReturns(p, Post(r)) =>
                            LET qs == r.body.questions
                            IN  \E f \in [1..k -> 1..Len(qs)] :
                                    /\ \A i, j \in 1..k : i < j => f[i] < f[j]
                                    /\ \A i \in 1..k :
                                          AddedQuestions(first)[i] = Strip(qs[f[i]])]_vars

\* A generate-more has just added the question "b" after the question "A",
\* which create stored.
C14_Witness ==
    /\ last = Respond("generate", 1, 200, "ok")
    /\ \E t1, t2 \in TurnsOf(1) :
          /\ t1.question = <<"A">> /\ t2.question = <<"b">>
          /\ t2.order = t1.order + 1
    /\ Cardinality(TurnsOf(1)) = 2

\* The reply is a 2xx response whose body parses as JSON.
GoodReply(r) == r.kind = "response" /\ r.status >= 200 /\ r.status < 300 /\ r.json

\* Normal on the questions the engine can return.
PoolNormal == [q \in QuestionPool |-> Normal(q)]

\* Every question of the list is blank or is, normalised, in the set seen.
NothingNewIn(qs, seen) ==
    \A i \in 1..Len(qs) : PoolNormal[qs[i]] = <<>> \/ PoolNormal[qs[i]] \in seen

\* C15: when every question of the engine's response to a generate-more is
\* blank or equals, trimmed and lowercased, the question of a turn of the
\* session, the request is answered 400 and no session and no turn changes.
C15_NothingNew ==
    [][\A p \in Procs :
          (pc[p] = "generate_engine" /\ pc'[p] = "idle") =>
              \/ /\ last' = Respond("generate", loc[p].sid, 400, "no_new_questions")
                 /\ UNCHANGED <<sessions, turns, nextPk>>
              \/ LET seen == {Normal(e.question) : e \in TurnsOf(loc[p].sid)}
                 IN  \A r \in GenerateReplies :
                         ~(/\ GoodReply(r)
                           /\ NothingNewIn(r.body.questions, seen)
                           /\ GenerateEngineReturns(p, Post(r)))]_vars

\* A generate-more on a session that has a turn has just been answered 400
\* for want of a new question.
C15_Witness ==
    /\ last = Respond("generate", 1, 400, "no_new_questions")
    /\ TurnsOf(1) # {}
    /\ sessions[1].status = "IN_PROGRESS"

\* The response resp is what the classification of reply r allows: no engine
\* error for a good reply, else an engine error with status 400 exactly for a
\* response of status 400 and 502 for every other failure.
TypedFor(r, resp) ==
    IF GoodReply(r)
    THEN resp.detail \notin EngineErrorDetails
    ELSE /\ resp.detail \in EngineErrorDetails
         /\ resp.code \in EngineErrorCodes
         /\ resp.code = IF r.kind = "response" /\ r.status = 400 THEN 400 ELSE 502

C17_DeleteFrame ==
    [][\A p \in Procs, sid \in SessionIds, c \in Credentials :
          StepOp(p) = "delete" =>
              \A order \in OrderInputs(sid) :
                  (DeleteQuestion(p, sid, order, c[1], c[2]) /\ last'.code = 204) =>
                      /\ turns' = {t \in turns : ~(t.sid = sid /\ t.order = order)}
                      /\ Cardinality(turns') = Cardinality(turns) - 1
                      /\ UNCHANGED <<sessions, engineCalls>>]_vars

\* Order 1 of session 1 has just been deleted and the turn of order 2 is
\* still at order 2.
C17_Witness ==
    /\ last = Respond("delete", 1, 204, "ok")
    /\ 1 \in deletedOrders[1]
    /\ 1 \notin OrdersOf(1)
    /\ 2 \in OrdersOf(1)

\* Each turn has answered_at exactly when its answer is non-blank once trimmed.
AnsweredIffNonBlank == \A t \in turns : (t.answered_at # None) <=> (Strip(t.answer) # <<>>)

\* Turn u is turn t up to the answer and answered_at.
SameButAnswer(t, u) == u = [t EXCEPT !.answer = u.answer, !.answered_at = u.answered_at]

\* C18: in every reachable state a turn has answered_at exactly when its
\* answer is non-blank once trimmed; a record-answer changes at most the
\* answer and answered_at of the turn it names, makes no engine call and
\* changes no session and no other turn.
C18_AnswerStamp ==
    /\ []AnsweredIffNonBlank
    /\ [][\A p \in Procs, sid \in SessionIds, c \in Credentials :
             StepOp(p) = "answer" =>
                 \A answer \in AnswerInputs, order \in OrderInputs(sid) :
                     RecordAnswer(p, sid, order, c[1], c[2], answer) =>
                         /\ UNCHANGED <<sessions, engineCalls, pc>>
                         /\ Cardinality(turns') = Cardinality(turns)
                         /\ \A t \in turns :
                               IF t.sid = sid /\ t.order = order
                               THEN \E u \in turns' : SameButAnswer(t, u)
                               ELSE t \in turns'
                         /\ last'.code = 200 =>
                               \E u \in turns' :
                                   /\ u.sid = sid /\ u.order = order
                                   /\ u.answer = Strip(answer[1])]_vars

\* A record-answer has just succeeded, and the session has a turn with an
\* answer and its stamp and a turn with neither.
C18_Witness ==
    /\ last = Respond("answer", 1, 200, "ok")
    /\ \E t \in TurnsOf(1) : t.answer = <<"x">> /\ t.answered_at # None
    /\ \E t \in TurnsOf(1) : t.answer = <<>> /\ t.answered_at = None

\* The requests of the API that change data.
MutatingOps == {"create", "generate", "answer", "delete", "evaluate"}

\* No row is written, no session id is taken and the engine is not called.
NothingDone == UNCHANGED <<sessions, turns, nextSid, nextPk, engineCalls, pc>>

\* C19: a create, generate-more, record-answer, delete or evaluate that is
\* answered with a validation error or an access error has called the engine
\* not at all and has changed no session and no turn; a create, generate-more
\* or evaluate whose body is invalid is answered so, and an invalid create
\* leaves no session behind.
C19_RejectedBeforeMutation ==
    [][\A p \in Procs :
          /\ (/\ StepOp(p) \in MutatingOps
              /\ pc' = pc /\ nreq' # nreq
              /\ last'.detail \in {"validation", "forbidden"}) => NothingDone
          /\ StepOp(p) = "create" =>
                \A caller \in Creators, data \in CreateInputs :
                    (~ValidCreate(data) /\ CreateBegin(p, caller, data)) =>
                        /\ last' = Respond("create", 0, 400, "validation")
                        /\ DOMAIN sessions' = DOMAIN sessions
                        /\ NothingDone
          /\ StepOp(p) = "generate" =>
                \A sid \in SessionIds, c \in Credentials, count \in CountInputs :
                    (~ValidCount(count) /\ GenerateBegin(p, sid, c[1], c[2], count)) =>
                        /\ last' = Respond("generate", sid, 400, "validation")
                        /\ NothingDone
          /\ StepOp(p) = "evaluate" =>
                \A sid \in SessionIds, c \in Credentials :
                    EvaluateBegin(p, sid, c[1], c[2], "bad") =>
                        /\ last' = Respond("evaluate", sid, 400, "validation")
                        /\ NothingDone]_vars

\* A delete by a caller without access has just been refused, on a session
\* that has turns.
C19_Witness ==
    /\ last = Respond("delete", 1, 403, "forbidden")
    /\ TurnsOf(1) # {}
    /\ engineCalls = 1

\* The handlers that enter their engine call in this step.
Calling == {p \in Procs : pc[p] = "idle" /\ pc'[p] # "idle"}

\* C20: the count of outbound POSTs rises by exactly one in the step in which
\* a create, generate-more or evaluate enters its engine call and in no other
\* step, the step that handles the engine's reply or failure included; a
\* handler waiting for the engine does nothing but end, so a request posts at
\* most once, and there are never more POSTs than requests.
C20_OnePostPerCall ==
    /\ [](engineCalls <= nreq)
    /\ [][/\ engineCalls' = engineCalls + Cardinality(Calling)
          /\ Cardinality(Calling) <= 1
          /\ \A p \in Procs : pc[p] # "idle" => pc'[p] \in {pc[p], "idle"}
          /\ \A p \in Procs :
                (pc[p] # "idle" /\ pc'[p] = "idle") =>
                    /\ engineCalls' = engineCalls
                    /\ last'.op = loc[p].op]_vars

\* Two requests have called the engine, the second call failed, and two
\* POSTs were made in all.
C20_Witness ==
    /\ engineCalls = 2
    /\ last.detail \in EngineErrorDetails
    /\ \A p \in Procs : pc[p] = "idle"
    /\ 1 \in DOMAIN sessions /\ sessions[1].status = "IN_PROGRESS"

\* ------------------------------------------------------------ identity store
\* Email addresses given to the account operations: spellings of a@b that
\* differ in case and surrounding blanks, other addresses, and values that are
\* no address at all.
EmailInputs ==
    {<<"a", "@", "b">>, <<"A", "@", "b">>, <<" ", "a", "@", "b">>, <<"A", "@", "b", " ">>,
     <<"b", "@", "A">>, <<"b", "@", "a">>, <<"x", "@", "b">>,
     <<"a", "b">>, <<" ">>, <<>>}

\* Positions of "@" in a text.
Ats(e) == {i \in 1..Len(e) : e[i] = "@"}

\* BaseUserManager.normalize_email: a value with an "@" is stripped and the part
\* after the last "@" lowercased; any other value is returned as it is.
NormalizeEmail(e) ==
    IF Ats(Strip(e)) = {} THEN e
    ELSE LET t == Strip(e)
             at == SetMax(Ats(t))
         IN  SubSeq(t, 1, at) \o Lower(SubSeq(t, at + 1, Len(t)))

\* CustomUserManager._normalize_email_strict (models.py 18-21).
NormalizeEmailStrict(e) == Lower(Strip(e))

\* EmailField validation in full_clean: one "@" with a name before it and a
\* domain after it, and no blank.
ValidEmail(e) ==
    /\ Cardinality(Ats(e)) = 1
    /\ \A i \in Ats(e) : i > 1 /\ i < Len(e)
    /\ \A i \in 1..Len(e) : e[i] # " "

\* Variant: save stores the email as it was assigned.
SavedEmail_AsGiven(e) == e

\* self.email as User.save stores it (models.py 109-111).
SavedEmail(e) == IF e # <<>> THEN Lower(Strip(e)) ELSE e

\* The emails of the rows other than pk (pk 0: all rows).
EmailsBut(pk) == {users[k] : k \in DOMAIN users \ {pk}}

\* CustomUserManager._create_user (models.py 23-38): an empty email is refused,
\* the email is normalized, full_clean validates it and its uniqueness, and
\* save inserts the row under the unique constraint on email.
CreateUser(email) ==
    /\ Len(users) < MaxUsers
    /\ LET e == NormalizeEmailStrict(NormalizeEmail(email))
       IN  IF email = <<>>
           THEN /\ last' = Respond("create_user", 0, 500, "value_error")
                /\ UNCHANGED users
           ELSE IF ~ValidEmail(e) \/ e \in EmailsBut(0)
           THEN /\ last' = Respond("create_user", 0, 400, "validation")
                /\ UNCHANGED users
           ELSE IF SavedEmail(e) \in EmailsBut(0)
           THEN /\ last' = Respond("create_user", 0, 500, "integrity_error")
                /\ UNCHANGED users
           ELSE /\ last' = Respond("create_user", 0, 201, "ok")
                /\ users' = Append(users, SavedEmail(e))
    /\ UNCHANGED <<sessions, turns, nextSid, nextPk, rowLock, pc, loc, nreq, clock,
                   engineCalls, deletedOrders, mock>>

\* User.save on a stored user whose email attribute was assigned (models.py
\* 108-115): the email is normalized and the row updated under the unique
\* constraint on email.
SaveUser(pk, email) ==
    /\ pk \in DOMAIN users
    /\ IF SavedEmail(email) \in EmailsBut(pk)
       THEN /\ last' = Respond("save_user", 0, 500, "integrity_error")
            /\ UNCHANGED users
       ELSE /\ last' = Respond("save_user", 0, 200, "ok")
            /\ users' = [users EXCEPT ![pk] = SavedEmail(email)]
    /\ UNCHANGED <<sessions, turns, nextSid, nextPk, rowLock, pc, loc, nreq, clock,
                   engineCalls, deletedOrders, mock>>

UserNext ==
    \/ \E email \in EmailInputs : CreateUser(email)
    \/ \E pk \in 1..MaxUsers, email \in EmailInputs : SaveUser(pk, email)

\* The identity store on its own: accounts are created and saved in any order.
UserSpec == Init /\ [][UserNext]_vars

\* C21: every stored email is its own trimmed, lowercased form, and no two
\* users have emails that are equal once trimmed and lowercased.
C21_EmailsNormalizedUnique ==
    /\ \A k \in DOMAIN users : users[k] = Lower(Strip(users[k]))
    /\ \A j, k \in DOMAIN users :
          Lower(Strip(users[j])) = Lower(Strip(users[k])) => j = k

\* a@b is stored, and an account operation given another spelling of it has
\* just been refused.
C21_Witness ==
    /\ \E k \in DOMAIN users : users[k] = <<"a", "@", "b">>
    /\ Len(users) >= 2
    /\ last.op \in {"create_user", "save_user"}
    /\ last.code # 200 /\ last.code # 201

\* ------------------------------------------------------------ offline engine
Max(a, b) == IF a > b THEN a ELSE b
Range(q) == {q[i] : i \in DOMAIN q}

\* A text of n characters, after the given opening.
Padded(opening, n) == opening \o [i \in 1..(n - Len(opening)) |-> "x"]

\* "w in s" on texts.
Contains(s, w) == \E i \in 1..(Len(s) - Len(w) + 1) : SubSeq(s, i, i + Len(w) - 1) = w

\* A question of the offline engine: a template and what is filled into it.
MockQuestion(kind, n, a, b) == [kind |-> kind, n |-> n, a |-> a, b |-> b]

\* base_questions (interview_engine.py 67-88): the ten templates on the role,
\* two for each of the first three technologies, one for the level if any.
BaseQuestions(role, level, stack) ==
    LET techs == SubSeq(stack, 1, Min(MockTechs, Len(stack)))
    IN  [k \in 1..MockTemplates |-> MockQuestion("template", k, role, "")]
        \o [i \in 1..(2 * Len(techs)) |->
               IF i % 2 = 1 THEN MockQuestion("use", 0, techs[(i + 1) \div 2], role)
                            ELSE MockQuestion("advantages", 0, techs[i \div 2], role)]
        \o (IF level # "" THEN <<MockQuestion("review", 0, level, role)>> ELSE <<>>)

\* The "generate" branch of _mock_response (interview_engine.py 57-104).
MockGenerate(payload) ==
    LET count == IF payload.count = None THEN MockDefaultCount ELSE payload.count[1]
        existing == payload.existing_questions
        NotExisting(q) == q \notin Range(existing)
        available == SelectSeq(BaseQuestions(payload.role, payload.level, payload.stack),
                               NotExisting)
    IN  [kind |-> "generate",
         fastapi_session_id |-> IF payload.fastapi_session_id = ""
                                THEN "mock-session-001" ELSE payload.fastapi_session_id,
         questions |-> [i \in 1..count |->
                           IF i <= Len(available) THEN available[i]
                           ELSE MockQuestion("mock", Len(existing) + i - Len(available),
                                             payload.role, "")],
         feedback |-> <<>>, score |-> 0, length |-> 0, has_code |-> FALSE]

\* Variant: the score is not clamped.
MockScore_Unclamped(answer) == Len(answer) \div ScoreDivisor

\* score = min(10, max(1, len(answer) // 20))
MockScore(answer) == Min(ScoreMax, Max(ScoreMin, Len(answer) \div ScoreDivisor))

\* The "check" branch of _mock_response (interview_engine.py 107-121).
MockCheck(payload) ==
    [kind |-> "check", fastapi_session_id |-> "", questions |-> <<>>,
     feedback |-> SubSeq(payload.question, 1, Min(FeedbackQuote, Len(payload.question))),
     score |-> MockScore(payload.answer),
     length |-> Len(payload.answer),
     has_code |-> \/ Contains(Lower(payload.answer), <<"d", "e", "f">>)
                  \/ Contains(Lower(payload.answer), <<"c", "l", "a", "s", "s">>)]

\* Paths and the words the offline engine looks for in them.
MockPaths == {"/interview/generate/", "/interview/check/", "/generate/check/", "/health/"}
HasGenerate(path) == path \in {"/interview/generate/", "/generate/check/"}
HasCheck(path) == path \in {"/interview/check/", "/generate/check/"}

\* _mock_response (interview_engine.py 51-123).
MockResponse(path, payload) ==
    IF HasGenerate(path) THEN MockGenerate(payload)
    ELSE IF HasCheck(path) THEN MockCheck(payload)
    ELSE [kind |-> "empty", fastapi_session_id |-> "", questions |-> <<>>,
          feedback |-> <<>>, score |-> 0, length |-> 0, has_code |-> FALSE]

\* The profiles of generate calls: a role alone, or with a level and a stack
\* of more technologies than the engine uses.
MockProfiles ==
    {[role |-> "dev", level |-> "", stack |-> <<>>],
     [role |-> "dev", level |-> "MID_I", stack |-> <<"py", "js", "go", "c">>]}

\* Payloads of generate calls: a count or none, an engine session id or none,
\* and no question or every template already asked.
GeneratePayloads ==
    {[count |-> c, fastapi_session_id |-> f, existing_questions |-> e,
      role |-> pr.role, level |-> pr.level, stack |-> pr.stack,
      question |-> <<>>, answer |-> <<>>] :
        c \in {None, Some(MockTemplates + 1)}, f \in {"", "fs"},
        e \in {<<>>, [k \in 1..MockTemplates |-> MockQuestion("template", k, "dev", "")]},
        pr \in MockProfiles}

\* Lengths of answers: each multiple of the divisor and the length before it.
AnswerLengths ==
    {0} \cup {ScoreDivisor * k : k \in 1..MaxTwenties}
        \cup {ScoreDivisor * k - 1 : k \in 1..MaxTwenties}

\* A check payload.
CheckPayload(question, answer) ==
    [count |-> None, fastapi_session_id |-> "", existing_questions |-> <<>>,
     role |-> "", level |-> "", stack |-> <<>>, question |-> question, answer |-> answer]

\* Payloads of check calls: answers of every such length, answers with code,
\* and a question longer than the feedback quotes.
CheckPayloads ==
    {CheckPayload(<<"a">>, Padded(<<>>, n)) : n \in AnswerLengths}
    \cup {CheckPayload(<<"a">>, Padded(<<"d", "e", "f">>, ScoreDivisor)),
          CheckPayload(Padded(<<"b">>, FeedbackQuote + 1), <<"c", "l", "A", "s", "s">>)}

\* call_interview_engine with FASTAPI_MOCK set (interview_engine.py 9-15): the
\* response is logged with its call, before the call that came last.
CallMock(path, payload) ==
    /\ mock' = <<[path |-> path, payload |-> payload,
                  response |-> MockResponse(path, payload)]>>
               \o SubSeq(mock, 1, Min(1, Len(mock)))
    /\ UNCHANGED <<sessions, turns, nextSid, nextPk, rowLock, pc, loc, last, nreq, clock,
                   engineCalls, deletedOrders, users>>

MockNext ==
    \/ \E path \in {p \in MockPaths : HasGenerate(p)}, payload \in GeneratePayloads :
          CallMock(path, payload)
    \/ \E path \in {"/interview/check/", "/health/"}, payload \in CheckPayloads :
          CallMock(path, payload)

\* The offline engine on its own: it is called again and again.
MockSpec == Init /\ [][MockNext]_vars

\* The calls of the log that took the "check" branch.
Checks == {i \in DOMAIN mock : mock[i].response.kind = "check"}

HasResults(t) == t.feedback # "" \/ t.score # None \/ t.meta # "{}"

\* Turn u is turn t up to what an evaluation stores.
SameButResults(t, u) ==
    u = [t EXCEPT !.feedback = u.feedback, !.score = u.score, !.meta = u.meta]

AdminReassign(sid, owner) ==
    /\ nreq < MaxRequests
    /\ sid \in DOMAIN sessions
    /\ sessions[sid].user # owner
    /\ RowLockFree(sid)
    /\ nreq' = nreq + 1
    /\ sessions' = [sessions EXCEPT ![sid] = [@ EXCEPT !.user = owner, !.updated_at = clock]]
    /\ clock' = clock + 1
    /\ last' = Respond("admin_reassign", sid, 200, "ok")
    /\ UNCHANGED <<turns, nextSid, nextPk, rowLock, pc, loc, engineCalls, deletedOrders>>

AdminNext ==
    \/ Next
    \/ UNCHANGED side /\ \E sid \in SessionIds, owner \in Users : AdminReassign(sid, owner)

\* The API together with the administration site.
AdminSpec == Init /\ [][AdminNext]_vars

\* Every caller the session as checked lets in is let in by the session as it
\* stands now.
StillAllowed(checked, now) ==
    \A c \in Credentials :
        CanAccessSession(checked, c[1], c[2]) => CanAccessSession(now, c[1], c[2])

\* C24 as claimed: a handler that writes does so in a state in which the
\* session, as the writing transaction finds it, still lets in whoever the
\* access check let in.
C24_CheckedWhereWritten ==
    [][\A p \in Procs :
          (/\ pc[p] \in {"generate_engine", "evaluate_engine"} /\ pc'[p] = "idle"
           /\ <<sessions, turns>>' # <<sessions, turns>>) =>
              StillAllowed(loc[p].session, sessions[loc[p].sid])]_vars

\* ------------------------------------------------------------- two sessions
TwoSessionIds == {1, 2}

\* The engine's answer to a create: one question.
OneQuestion ==
    Post([kind |-> "response", status |-> 200, json |-> TRUE,
          body |-> [fsid |-> "fs", questions |-> <<<<"a">>>>]])

\* The store after u1 has created session 1, a guest has created session 2,
\* each with one question, and the guest has answered theirs; requests and
\* engine calls are counted from here.
TwoInit ==
    /\ sessions = (1 :> CreateResult(NewSession(1, "u1", 1), OneQuestion, 1))
                  @@ (2 :> CreateResult(NewSession(2, NoUser, 2), OneQuestion, 2))
    /\ turns = CreateTurns(NewSession(1, "u1", 1), OneQuestion, 1)
               \cup {AnsweredTurn(t, <<"x">>, 3) :
                        t \in CreateTurns(NewSession(2, NoUser, 2), OneQuestion, 2)}
    /\ nextSid = 3
    /\ nextPk = 3
    /\ rowLock = [s \in TwoSessionIds |-> NoLock]
    /\ pc = [p \in Procs |-> "idle"]
    /\ loc = [p \in Procs |-> NoLoc]
    /\ last = NoResponse
    /\ nreq = 0
    /\ clock = 4
    /\ engineCalls = 0
    /\ deletedOrders = [s \in TwoSessionIds |-> {}]
    /\ users = <<>>
    /\ mock = <<>>

\* The owner of session 1 and the guest of session 2, each of whom has access
\* to their own session only.
TwoCredentials == {<<"u1", "">>, <<Anon, "tok2">>}

\* The requests on the two sessions.
TwoNext ==
    \/ UNCHANGED side /\ \E p \in Procs : CanAccept(p) /\
          \E sid \in TwoSessionIds, c \in TwoCredentials : Detail(p, sid, c[1], c[2])
    \/ UNCHANGED side /\ \E p \in Procs : CanAccept(p) /\
          \E sid \in TwoSessionIds, c \in TwoCredentials, count \in CountInputs :
              GenerateBegin(p, sid, c[1], c[2], count)
    \/ UNCHANGED side /\ \E p \in Procs : pc[p] = "generate_engine" /\
          \E r \in GenerateReplies : GenerateEngineReturns(p, Post(r))
    \/ UNCHANGED side /\ \E p \in Procs : CanAccept(p) /\
          \E sid \in TwoSessionIds, c \in TwoCredentials, answer \in AnswerInputs :
              \E order \in OrderInputs(sid) :
                  RecordAnswer(p, sid, order, c[1], c[2], answer)
    \/ UNCHANGED side /\ \E p \in Procs : CanAccept(p) /\
          \E sid \in TwoSessionIds, c \in TwoCredentials :
              \E order \in OrderInputs(sid) : DeleteQuestion(p, sid, order, c[1], c[2])
    \/ UNCHANGED side /\ \E p \in Procs : CanAccept(p) /\
          \E sid \in TwoSessionIds, c \in TwoCredentials, data \in EvaluateInputs :
              EvaluateBegin(p, sid, c[1], c[2], data)
    \/ UNCHANGED side /\ \E p \in Procs : pc[p] = "evaluate_engine" /\
          \E r \in EvaluateReplies({t.order : t \in loc[p].snapshot}) :
              EvaluateEngineReturns(p, Post(r))

TwoSpec == TwoInit /\ [][TwoNext]_vars

\* Worker p is in a generate-more that holds the row lock of session sid.
Holding(p, sid) == pc[p] = "generate_engine" /\ rowLock[sid] = p

\* Worker q can take every request on the session.
Unblocked(q, sid) ==
    \A c \in TwoCredentials :
        /\ ENABLED Detail(q, sid, c[1], c[2])
        /\ \A count \in CountInputs : ENABLED GenerateBegin(q, sid, c[1], c[2], count)
        /\ \A answer \in AnswerInputs, order \in OrderInputs(sid) :
              ENABLED RecordAnswer(q, sid, order, c[1], c[2], answer)
        /\ \A order \in OrderInputs(sid) : ENABLED DeleteQuestion(q, sid, order, c[1], c[2])
        /\ \A data \in EvaluateInputs : ENABLED EvaluateBegin(q, sid, c[1], c[2], data)

\* C25: while a generate-more holds the lock of a session, waiting for the
\* engine or not, a free worker can take every request on another session and
\* an evaluate of another session can commit, but no generate-more on the same
\* session gets past the lock; a generate-more reads the session only when no
\* other holds its lock, and takes next_order from the turns committed by then.
C25_LockPerSession ==
    /\ [](\A p \in Procs, sid \in TwoSessionIds :
             Holding(p, sid) =>
                 \A q \in Procs \ {p} :
                     /\ \A other \in TwoSessionIds \ {sid} :
                           /\ CanAccept(q) => Unblocked(q, other)
                           /\ (pc[q] = "evaluate_engine" /\ loc[q].sid = other) =>
                                 \A r \in EvaluateReplies({t.order : t \in loc[q].snapshot}) :
                                     ENABLED EvaluateEngineReturns(q, Post(r))
                     /\ \A c \in TwoCredentials, count \in CountInputs :
                           ValidCount(count) => ~ENABLED GenerateBegin(q, sid, c[1], c[2], count))
    /\ [][\A p \in Procs :
             (pc[p] = "idle" /\ pc'[p] = "generate_engine") =>
                 /\ rowLock[loc'[p].sid] = NoLock
                 /\ \A q \in Procs : ~Holding(q, loc'[p].sid)
                 /\ loc'[p].next_order = NextOrder(loc'[p].sid)
                 /\ rowLock'[loc'[p].sid] = p]_vars

\* While a generate-more holds the lock of session 1, a generate-more on
\* session 2 has run to its end and added a turn.
C25_Witness ==
    /\ \E p \in Procs : Holding(p, 1)
    /\ last = Respond("generate", 2, 200, "ok")
    /\ Cardinality(TurnsOf(2)) = 2

\* C26 as claimed: when an evaluate ends with 200, every turn the session then
\* has is one the evaluate read, with the answer it read.
C26_EvaluatesWhatIsStored ==
    [][\A p \in Procs :
          (pc[p] = "evaluate_engine" /\ pc'[p] = "idle" /\ last'.code = 200) =>
              \A t \in turns' :
                  t.sid = loc[p].sid =>
                      \E s \in loc[p].snapshot : s.pk = t.pk /\ s.answer = t.answer]_vars

\* C27 as claimed: a COMPLETED session has a turn, and each of its turns has an
\* answer that is not blank.
C27_CompletedIsAnswered ==
    \A sid \in DOMAIN sessions :
        sessions[sid].status = "COMPLETED" =>
            /\ TurnsOf(sid) # {}
            /\ \A t \in TurnsOf(sid) : Strip(t.answer) # <<>>

\* The turn stores what the result holds.
Stored(t, r) ==
    /\ t.feedback = GetOr(r.body.feedback, "")
    /\ t.score = r.body.score
    /\ t.meta = GetOr(r.body.meta, "{}")

\* C28 as claimed: when the engine's results cover every order sent, in
\* whatever form the orders are written, the evaluate stores for each turn it
\* read the result of the turn's order.
C28_CheckAndLookupAgree ==
    [][\A p \in Procs :
          (pc[p] = "evaluate_engine" /\ pc'[p] = "idle" /\ last'.code = 200) =>
              \A r \in EvaluateReplies({t.order : t \in loc[p].snapshot}) :
                  (/\ GoodReply(r)
                   /\ MissingOrders(loc[p].snapshot, r.body.results) = {}
                   /\ EvaluateEngineReturns(p, Post(r))) =>
                      \A s \in loc[p].snapshot :
                          \E t \in turns', item \in r.body.results :
                              /\ t.pk = s.pk
                              /\ item.order[2] = s.order
                              /\ Stored(t, item)]_vars

\* A create or a generate-more goes from the engine's answer to its response.
QuestionsReturn(p) ==
    pc[p] \in {"create_engine", "generate_engine"} /\ pc'[p] = "idle"

\* C29 as claimed: a generate-more or a create adds no more turns than the
\* count it sent to the engine.
C29_AtMostCount ==
    [][\A p \in Procs :
          QuestionsReturn(p) => Cardinality(turns' \ turns) <= loc[p].count]_vars

\* How many questions of the list are not blank and are, normalised, outside
\* the set seen.
NumFresh(qs, seen) ==
    Cardinality({i \in 1..Len(qs) :
                    PoolNormal[qs[i]] # <<>> /\ PoolNormal[qs[i]] \notin seen})

\* What the call compares the engine's questions with: nothing in create, the
\* questions read under the lock in generate-more.
SeenBy(p) == IF pc[p] = "create_engine" THEN {} ELSE loc[p].existing

\* C29: the count a create or a generate-more sends to the engine lies between
\* 1 and the maximum of 50, and bounds the request only: a call answered 201 or
\* 200 adds one turn for every question of the engine's response that is not
\* blank and, in generate-more, not among the questions read, however many
\* these are.
C29_AddsWhatEngineReturns ==
    [][\A p \in Procs :
          QuestionsReturn(p) =>
              /\ loc[p].count >= CountMin
              /\ loc[p].count <= MaxGenerateCount
              /\ \A r \in GenerateReplies :
                    \/ ~GoodReply(r)
                    \/ last'.code \notin {200, 201}
                    \/ Cardinality(turns' \ turns) = NumFresh(r.body.questions, SeenBy(p))
                    \/ ~(\/ CreateEngineReturns(p, Post(r))
                         \/ GenerateEngineReturns(p, Post(r)))]_vars

\* A generate-more that asked for one question has just added two turns to a
\* session whose create had failed: of the two requests made, only it stored
\* questions.
C29_Witness ==
    /\ last = Respond("generate", 1, 200, "ok")
    /\ nreq = 2
    /\ sessions[1].started_at = None
    /\ Cardinality(TurnsOf(1)) = 2

\* C30 as claimed: no two turns of a session have questions that are equal
\* once trimmed and lowercased.
C30_NoDuplicateQuestions ==
    \A t, u \in turns :
        (t.sid = u.sid /\ t.pk # u.pk) => Normal(t.question) # Normal(u.question)

====
